---- MODULE Spec2Model ----
(***************************************************************************)
(* Voice activity detectors of assist_microphone/hass_satellite/vad.py.    *)
(*                                                                         *)
(* SileroVoiceActivityDetector keeps two recurrent tensors (_h, _c) that   *)
(* every call hands to an ONNX inference session and replaces by the       *)
(* session's outputs; WebrtcVoiceActivityDetector hands the raw buffer to  *)
(* a binary classifier.                                                    *)
(*                                                                         *)
(* Representation.                                                         *)
(*  - a byte buffer is a sequence of 0..255;                               *)
(*  - an ndarray holding a recurrent state or an engine output is          *)
(*    [id, shape, dtype, num, den]: id is the identity of the Python       *)
(*    object and the quotient num/den stands for its contents, num = 0     *)
(*    for an all-zero array;                                               *)
(*  - the decoded audio array is [shape, dtype, data], data the sequence   *)
(*    of its elements; a normalized element is the exact quotient          *)
(*    [num, den] (float32 rounding of the quotient is not modelled);       *)
(*  - the inference session and the classifier are libraries outside the   *)
(*    repository.  The session is a deterministic function of the graph    *)
(*    it was built from and of its four inputs; the graph is chosen when   *)
(*    the detector is constructed.  The classifier's verdict on a frame    *)
(*    it accepts is a nondeterministic choice.                             *)
(***************************************************************************)
EXTENDS Integers, Sequences, FiniteSets, TLC

\* _RATE
RATE == 16000
\* the divisor of "/ 32767.0"
Divisor == 32767

\* Bounds of the model.
MaxStream == 2      \* calls fed to a Silero detector between two resets
MaxGraph == 1       \* inference graphs 0..MaxGraph a detector may be built from
MaxLevel == 1       \* recurrent-state contents are the levels -MaxLevel..MaxLevel
ProbDen == 2        \* probabilities are the values 0/ProbDen .. ProbDen/ProbDen

VARIABLES
    session,    \* session[i]: the graph detector i's InferenceSession was built from
    h,          \* h[i]: self._h of Silero detector i
    c,          \* c[i]: self._c of Silero detector i
    held,       \* held[i]: the value the caller got from its latest call on i, until its next call or reset of i (<<>>: none)
    curF,       \* curF[i]: buffers fed to i since construction or the last reset
    curO,       \* curO[i]: what each of those calls gave the caller
    refF,       \* refF[i]: the buffers of an earlier stream of i, kept for comparison
    refO,       \* refO[i]: the outcomes of that earlier stream
    engineOut,  \* engineOut[i]: the latest outputs of i's session since the last reset (<<>>: none)
    event,      \* the latest operation: its arguments, what it passed on, its outcome,
                \* and the detector's _h and _c as the operation found them
    pc,         \* pc[i]: "idle", or "running" while a call of i is between session.run and the assignment
    pending,    \* pending[i]: the outcome of the running call of i (<<>>: none)
    solo        \* solo[i]: detector i replayed alone: the same calls, in the same order

vars == <<session, h, c, held, curF, curO, refF, refO, engineOut, event, pc, pending, solo>>

Graphs == 0..MaxGraph

Insts == DOMAIN h

\* The event before any operation.  frame: the buffer of a call; passed: what
\* the call handed to the session or to the classifier; before: _h and _c as
\* the operation found them; verdict: the classifier's answer; ret: the value
\* returned.
NoEvent ==
    [frame |-> <<>>, passed |-> <<>>, before |-> <<>>, det |-> "none", inst |-> 0,
     op |-> "init", result |-> "none", verdict |-> <<>>, ret |-> <<>>]

-----------------------------------------------------------------------------
(* Buffers *)

Silence10ms == [k \in 1..(2 * (RATE \div 100)) |-> 0]

\* Buffers fed to the Silero detector: empty, three bytes, the single samples
\* -32768 and 32767.
SileroFrames == { <<>>, <<1, 0, 255>>, <<0, 128>>, <<255, 127>> }

\* Buffers fed to each of two Silero detectors used side by side.
PairFrames == { <<1, 0, 255>>, <<0, 128>> }

\* Buffers fed to the WebRTC detector: 10 ms of silence (320 bytes), the same
\* with one trailing byte (321 bytes), one sample.
WebrtcFrames == { Silence10ms, Silence10ms \o <<7>>, <<0, 128>> }

-----------------------------------------------------------------------------
(* numpy *)

\* np.zeros(shape): a new float64 array
Zeros(shape, id) ==
    [id |-> id, shape |-> shape, dtype |-> "float64", num |-> 0, den |-> MaxLevel]

\* a.astype(dtype)
AsType(a, dtype) == [a EXCEPT !.dtype = dtype]

\* np.zeros((2, 1, 64)).astype("float32")
ZeroStateNoCast(id) == Zeros(<<2, 1, 64>>, id)
ZeroState(id) == AsType(Zeros(<<2, 1, 64>>, id), "float32")

\* np.frombuffer(audio, dtype=np.int16) raises ValueError unless the buffer
\* size is a multiple of the element size
FromBufferOk(audio) == Len(audio) % 2 = 0

\* the k-th little-endian signed 16-bit element of the buffer
Int16At(audio, k) ==
    LET u == audio[2 * k - 1] + 256 * audio[2 * k]
    IN  IF u >= 32768 THEN u - 65536 ELSE u

FromBuffer(audio) ==
    [shape |-> <<Len(audio) \div 2>>,
     dtype |-> "int16",
     data  |-> [k \in 1..(Len(audio) \div 2) |-> Int16At(audio, k)]]

\* .astype(np.float32) / 32767.0
NormalizeSymmetric(a) ==
    [shape |-> a.shape,
     dtype |-> "float32",
     data  |-> [k \in DOMAIN a.data |-> [num |-> a.data[k], den |-> Divisor + 1]]]
Normalize(a) ==
    [shape |-> a.shape,
     dtype |-> "float32",
     data  |-> [k \in DOMAIN a.data |-> [num |-> a.data[k], den |-> Divisor]]]

\* if len(audio_array.shape) == 1: np.expand_dims(audio_array, 0)
ExpandDims(a) ==
    IF Len(a.shape) = 1 THEN [a EXCEPT !.shape = <<1>> \o a.shape] ELSE a

\* out.squeeze(): a view of out without its dimensions of size 1
Squeeze(a) ==
    [base  |-> a.id,
     shape |-> SelectSeq(a.shape, LAMBDA d : d # 1),
     num   |-> a.num,
     den   |-> a.den]

\* The identity of a new object: <<o, n>>, the n-th object allocated on behalf
\* of detector o, for the least n that names no object still referred to.
FreshId(o, used) ==
    <<o, CHOOSE n \in 0..Cardinality(used) :
            <<o, n>> \notin used /\ \A m \in 0..(n - 1) : <<o, m>> \in used>>

-----------------------------------------------------------------------------
(* The inference session (onnxruntime, outside the repository) *)

\* What the input array tells the graph apart by: the sign of the sum of its
\* elements.
RECURSIVE SumNum(_)
SumNum(data) ==
    IF Len(data) = 0 THEN 0 ELSE data[1].num + SumNum(Tail(data))

Feature(input) ==
    LET s == SumNum(input.data)
    IN  IF s = 0 THEN 0 ELSE IF s > 0 THEN 1 ELSE 2

Span == 2 * MaxLevel + 1

\* session.run rejects inputs of the wrong rank, type or shape, and an input
\* without samples
SessionRaises(in) ==
    \/ Len(in.input.shape) # 2
    \/ in.input.dtype # "float32"
    \/ in.input.shape[2] = 0
    \/ in.h.dtype # "float32"
    \/ in.c.dtype # "float32"
    \/ in.h.shape # <<2, in.input.shape[1], 64>>
    \/ in.c.shape # <<2, in.input.shape[1], 64>>
    \/ in.sr.dtype # "int64"
    \/ in.sr.val \notin {8000, 16000}

\* session.run(None, ort_inputs): three new arrays, the probability and the
\* next recurrent state, each a function of the graph, input, h and c
SessionRun(g, in, o, used) ==
    LET f   == Feature(in.input)
        b   == in.input.shape[1]
        id1 == FreshId(o, used)
        id2 == FreshId(o, used \cup {id1})
        id3 == FreshId(o, used \cup {id1, id2})
    IN  << [id |-> id1, shape |-> <<b, 1>>, dtype |-> "float32",
            num |-> (g + f + in.h.num + 2 * in.c.num) % (ProbDen + 1),
            den |-> ProbDen],
           [id |-> id2, shape |-> <<2, b, 64>>, dtype |-> "float32",
            num |-> ((2 * g + f + in.h.num + 2 * in.c.num + 1) % Span) - MaxLevel,
            den |-> MaxLevel],
           [id |-> id3, shape |-> <<2, b, 64>>, dtype |-> "float32",
            num |-> ((g + 2 * f + 2 * in.h.num + in.c.num + 2) % Span) - MaxLevel,
            den |-> MaxLevel] >>

-----------------------------------------------------------------------------
(* SileroVoiceActivityDetector *)

\* __init__: self._h, self._c
Construct(idH, idC) == [h |-> ZeroState(idH), c |-> ZeroState(idC)]

\* reset: self._h, self._c
ResetStateOnlyH(old, idH, idC) == [h |-> ZeroState(idH), c |-> old.c]
ResetState(old, idH, idC) == [h |-> ZeroState(idH), c |-> ZeroState(idC)]

\* self._h and self._c as a method of detector i reads them
SharedH(i) == h[1]
SelfH(i) == h[i]
SelfC(i) == c[i]

\* ort_inputs
OrtInputs(audio, hT, cT) ==
    [input |-> AsType(ExpandDims(Normalize(FromBuffer(audio))), "float32"),
     h     |-> hT,
     c     |-> cT,
     sr    |-> [dtype |-> "int64", val |-> RATE]]

\* out, self._h, self._c = ort_outs
UnpackSwapped(outs) == [out |-> outs[1], h |-> outs[3], c |-> outs[2]]
Unpack(outs) == [out |-> outs[1], h |-> outs[2], c |-> outs[3]]

\* return out.squeeze()
ReturnHidden(u) == Squeeze(u.h)
Return(u) == Squeeze(u.out)

\* __call__: the outcome of one call on a detector built from graph g that
\* reads hT, cT as its state.  write: what line 59 assigns to self._h and
\* self._c (<<>>: the line is not reached, an exception of np.frombuffer or
\* of session.run having left the method before it).
SileroCallClearOnError(g, hT, cT, audio, o, used) ==
    IF ~FromBufferOk(audio)
    THEN [result |-> "decode_error", write |-> <<>>,
          ret |-> <<>>, passed |-> <<>>, outs |-> <<>>]
    ELSE LET in == OrtInputs(audio, hT, cT)
         IN  IF SessionRaises(in)
             THEN [result |-> "engine_error",
                   write |-> <<[h |-> ZeroState(FreshId(o, used)), c |-> cT]>>,
                   ret |-> <<>>, passed |-> <<in>>, outs |-> <<>>]
             ELSE LET outs == SessionRun(g, in, o, used)
                      u    == Unpack(outs)
                  IN  [result |-> "ok", write |-> <<[h |-> u.h, c |-> u.c]>>,
                       ret |-> <<Return(u)>>, passed |-> <<in>>, outs |-> outs]
SileroCallTruncating(g, hT, cT, audio, o, used) ==
    LET even == SubSeq(audio, 1, 2 * (Len(audio) \div 2))
        in   == OrtInputs(even, hT, cT)
    IN  IF SessionRaises(in)
        THEN [result |-> "engine_error", write |-> <<>>,
              ret |-> <<>>, passed |-> <<in>>, outs |-> <<>>]
        ELSE LET outs == SessionRun(g, in, o, used)
                 u    == Unpack(outs)
             IN  [result |-> "ok", write |-> <<[h |-> u.h, c |-> u.c]>>,
                  ret |-> <<Return(u)>>, passed |-> <<in>>, outs |-> outs]
SileroCall(g, hT, cT, audio, o, used) ==
    IF ~FromBufferOk(audio)
    THEN [result |-> "decode_error", write |-> <<>>,
          ret |-> <<>>, passed |-> <<>>, outs |-> <<>>]
    ELSE LET in == OrtInputs(audio, hT, cT)
         IN  IF SessionRaises(in)
             THEN [result |-> "engine_error", write |-> <<>>,
                   ret |-> <<>>, passed |-> <<in>>, outs |-> <<>>]
             ELSE LET outs == SessionRun(g, in, o, used)
                      u    == Unpack(outs)
                  IN  [result |-> "ok", write |-> <<[h |-> u.h, c |-> u.c]>>,
                       ret |-> <<Return(u)>>, passed |-> <<in>>, outs |-> outs]

\* What the caller sees of a call: the exception, or the value returned.
Outcome(r) ==
    [result |-> r.result,
     value  |-> IF r.ret = <<>> THEN <<>>
                ELSE <<[shape |-> r.ret[1].shape, num |-> r.ret[1].num, den |-> r.ret[1].den]>>]

-----------------------------------------------------------------------------
(* WebrtcVoiceActivityDetector *)

\* Frame lengths the classifier supports at _RATE: 10, 20 and 30 ms.
SupportedSamples == { RATE \div 100, 2 * (RATE \div 100), 3 * (RATE \div 100) }

\* vad.is_speech(audio, _RATE) takes int(len(audio) / 2) samples of the
\* buffer and raises unless that is a supported frame length
ClassifierAccepts(audio, rate) == (Len(audio) \div 2) \in SupportedSamples

\* 1.0 if ... else 0.0
AsFloatInverted(speech) == IF speech THEN [num |-> 0, den |-> 1] ELSE [num |-> 1, den |-> 1]
AsFloat(speech) == IF speech THEN [num |-> 1, den |-> 1] ELSE [num |-> 0, den |-> 1]

\* __call__: the buffer and _RATE go to the classifier as they are
WebrtcCall(audio, speech) ==
    LET args == [buf |-> audio, rate |-> RATE]
    IN  IF ~ClassifierAccepts(args.buf, args.rate)
        THEN [result |-> "classifier_error", ret |-> <<>>,
              passed |-> <<args>>, verdict |-> <<>>]
        ELSE [result |-> "ok", ret |-> <<AsFloat(speech)>>,
              passed |-> <<args>>, verdict |-> <<speech>>]

-----------------------------------------------------------------------------
(* State *)

\* The identities of the arrays something refers to.
UsedIds ==
    UNION { {h[i].id, c[i].id}
            \cup {held[i][k].base : k \in DOMAIN held[i]}
            \cup UNION { {pending[i][k].outs[j].id : j \in DOMAIN pending[i][k].outs}
                         : k \in DOMAIN pending[i] }
            : i \in Insts }

\* What is compared of an array when two runs are compared: everything but
\* the identity of the object.
Content(t) == [shape |-> t.shape, dtype |-> t.dtype, num |-> t.num, den |-> t.den]

\* The detectors D after their construction from the graphs gs.
InitWith(D) ==
    /\ session \in [D -> Graphs]
    /\ h = [i \in D |-> Construct(<<i, 0>>, <<i, 1>>).h]
    /\ c = [i \in D |-> Construct(<<i, 0>>, <<i, 1>>).c]
    /\ held = [i \in D |-> <<>>]
    /\ curF = [i \in D |-> <<>>]
    /\ curO = [i \in D |-> <<>>]
    /\ refF = [i \in D |-> <<>>]
    /\ refO = [i \in D |-> <<>>]
    /\ engineOut = [i \in D |-> <<>>]
    /\ event = NoEvent
    /\ pc = [i \in D |-> "idle"]
    /\ pending = [i \in D |-> <<>>]
    /\ solo = [i \in D |-> [h |-> Construct(<<0, 0>>, <<0, 1>>).h, c |-> Construct(<<0, 0>>, <<0, 1>>).c, out |-> <<>>]]

\* One Silero detector and one WebRTC detector.
Init == InitWith({1})

\* Two Silero detectors.
InitPair == InitWith({1, 2})

-----------------------------------------------------------------------------
(* Operations, each call running from its first line to its last *)

\* SileroVoiceActivityDetector.__call__(audio) on detector i
SileroDetect(i, audio) ==
    /\ pc[i] = "idle"
    /\ Len(curF[i]) < MaxStream
    /\ LET r == SileroCall(session[i], SelfH(i), SelfC(i), audio, i, UsedIds)
       IN  /\ h' = IF r.write = <<>> THEN h ELSE [h EXCEPT ![i] = r.write[1].h]
           /\ c' = IF r.write = <<>> THEN c ELSE [c EXCEPT ![i] = r.write[1].c]
           /\ held' = [held EXCEPT ![i] = r.ret]
           /\ curF' = [curF EXCEPT ![i] = Append(@, audio)]
           /\ curO' = [curO EXCEPT ![i] = Append(@, Outcome(r))]
           /\ engineOut' = [engineOut EXCEPT ![i] = IF r.result = "ok" THEN r.outs ELSE @]
           /\ event' = [det |-> "silero", inst |-> i, op |-> "call", frame |-> audio,
                        result |-> r.result, ret |-> r.ret, passed |-> r.passed,
                        verdict |-> <<>>, before |-> <<[h |-> h[i], c |-> c[i]]>>]
    /\ UNCHANGED <<session, refF, refO, pc, pending, solo>>

\* SileroVoiceActivityDetector.reset() on detector i.  keep: the stream that
\* ends here is the one later streams are compared with.
SileroReset(i, keep) ==
    /\ pc[i] = "idle"
    /\ LET idH == FreshId(i, UsedIds)
           idC == FreshId(i, UsedIds \cup {idH})
           st  == ResetState([h |-> h[i], c |-> c[i]], idH, idC)
       IN  /\ h' = [h EXCEPT ![i] = st.h]
           /\ c' = [c EXCEPT ![i] = st.c]
    /\ refF' = [refF EXCEPT ![i] = IF keep THEN curF[i] ELSE @]
    /\ refO' = [refO EXCEPT ![i] = IF keep THEN curO[i] ELSE @]
    /\ curF' = [curF EXCEPT ![i] = <<>>]
    /\ curO' = [curO EXCEPT ![i] = <<>>]
    /\ engineOut' = [engineOut EXCEPT ![i] = <<>>]
    /\ held' = [held EXCEPT ![i] = <<>>]
    /\ event' = [NoEvent EXCEPT !.det = "silero", !.inst = i, !.op = "reset",
                                !.before = <<[h |-> h[i], c |-> c[i]]>>]
    /\ UNCHANGED <<session, pc, pending, solo>>

\* WebrtcVoiceActivityDetector.__call__(audio); speech: the classifier's verdict
WebrtcDetect(audio, speech) ==
    /\ LET r == WebrtcCall(audio, speech)
       IN  event' = [det |-> "webrtc", inst |-> 0, op |-> "call", frame |-> audio,
                     result |-> r.result, ret |-> r.ret, passed |-> r.passed,
                     verdict |-> r.verdict, before |-> <<>>]
    /\ UNCHANGED <<session, h, c, held, curF, curO, refF, refO, engineOut, pc, pending, solo>>

\* WebrtcVoiceActivityDetector.reset(): VoiceActivityDetector.reset, pass
WebrtcReset ==
    /\ event' = [NoEvent EXCEPT !.det = "webrtc", !.op = "reset"]
    /\ UNCHANGED <<session, h, c, held, curF, curO, refF, refO, engineOut, pc, pending, solo>>

\* One Silero detector and one WebRTC detector, called in any order.
Next ==
    \/ \E i \in Insts, audio \in SileroFrames : SileroDetect(i, audio)
    \/ \E i \in Insts : SileroReset(i, FALSE)
    \/ \E audio \in WebrtcFrames, speech \in BOOLEAN : WebrtcDetect(audio, speech)
    \/ WebrtcReset

Spec == Init /\ [][Next]_vars

\* One Silero detector fed stream after stream, an earlier stream being kept
\* for comparison with the later ones.
NextStreams ==
    \/ \E i \in Insts, audio \in SileroFrames : SileroDetect(i, audio)
    \/ \E i \in Insts, keep \in BOOLEAN : SileroReset(i, keep)

SpecStreams == Init /\ [][NextStreams]_vars

-----------------------------------------------------------------------------
(* Two detectors, one thread each.  A thread may be preempted between the   *)
(* return of session.run and the assignment of line 59.                     *)

\* Detector i replayed alone on the buffer audio: the same method, on the
\* replay's own state.
SoloCall(i, audio) ==
    LET s == SileroCall(session[i], solo[i].h, solo[i].c, audio, 0, {})
    IN  [h   |-> IF s.write = <<>> THEN solo[i].h ELSE s.write[1].h,
         c   |-> IF s.write = <<>> THEN solo[i].c ELSE s.write[1].c,
         out |-> Append(solo[i].out, Outcome(s))]

\* __call__ up to the return of session.run (lines 46-58)
PairBegin(i, audio) ==
    /\ pc[i] = "idle"
    /\ Len(curF[i]) < MaxStream
    /\ pending' = [pending EXCEPT ![i] =
                      <<SileroCall(session[i], SelfH(i), SelfC(i), audio, i, UsedIds)>>]
    /\ pc' = [pc EXCEPT ![i] = "running"]
    /\ curF' = [curF EXCEPT ![i] = Append(@, audio)]
    /\ UNCHANGED <<session, h, c, held, curO, refF, refO, engineOut, event, solo>>

\* __call__ from the assignment to the return (lines 59-61), or the
\* exception reaching the caller
PairEnd(i) ==
    /\ pc[i] = "running"
    /\ LET r == pending[i][1]
       IN  /\ h' = IF r.write = <<>> THEN h ELSE [h EXCEPT ![i] = r.write[1].h]
           /\ c' = IF r.write = <<>> THEN c ELSE [c EXCEPT ![i] = r.write[1].c]
           /\ held' = [held EXCEPT ![i] = r.ret]
           /\ curO' = [curO EXCEPT ![i] = Append(@, Outcome(r))]
           /\ engineOut' = [engineOut EXCEPT ![i] = IF r.result = "ok" THEN r.outs ELSE @]
    /\ solo' = [solo EXCEPT ![i] = SoloCall(i, curF[i][Len(curF[i])])]
    /\ pending' = [pending EXCEPT ![i] = <<>>]
    /\ pc' = [pc EXCEPT ![i] = "idle"]
    /\ UNCHANGED <<session, curF, refF, refO, event>>

\* reset() of detector i by its thread
PairReset(i) ==
    /\ pc[i] = "idle"
    /\ LET idH == FreshId(i, UsedIds)
           idC == FreshId(i, UsedIds \cup {idH})
           st  == ResetState([h |-> h[i], c |-> c[i]], idH, idC)
           so  == ResetState([h |-> solo[i].h, c |-> solo[i].c], <<0, 0>>, <<0, 1>>)
       IN  /\ h' = [h EXCEPT ![i] = st.h]
           /\ c' = [c EXCEPT ![i] = st.c]
           /\ solo' = [solo EXCEPT ![i] = [h |-> so.h, c |-> so.c, out |-> <<>>]]
    /\ curF' = [curF EXCEPT ![i] = <<>>]
    /\ curO' = [curO EXCEPT ![i] = <<>>]
    /\ engineOut' = [engineOut EXCEPT ![i] = <<>>]
    /\ held' = [held EXCEPT ![i] = <<>>]
    /\ UNCHANGED <<session, refF, refO, event, pc, pending>>

NextPair ==
    \/ \E i \in Insts, audio \in PairFrames : PairBegin(i, audio)
    \/ \E i \in Insts : PairEnd(i)
    \/ \E i \in Insts : PairReset(i)

SpecPair == InitPair /\ [][NextPair]_vars

-----------------------------------------------------------------------------
(* Properties *)

\* A step that is a call of Silero detector i, and such a call's outcome.
IsSileroCallStep(i) == Len(curF'[i]) = Len(curF[i]) + 1
SileroCallEvent(i) == event.det = "silero" /\ event.inst = i /\ event.op = "call"

IsZeroState(t) == t.num = 0 /\ t.shape = <<2, 1, 64>>

\* C1: after a reset (or the construction), the outcomes of a stream of
\* buffers are those the same buffers gave in an earlier stream of the same
\* detector that also began at a reset: wherever the buffers fed so far are
\* those the earlier stream began with, so are the outcomes.
C1_SameFramesSameOutputs ==
    \A i \in Insts : \A k \in 1..Len(curO[i]) :
        (k <= Len(refF[i]) /\ SubSeq(curF[i], 1, k) = SubSeq(refF[i], 1, k))
            => curO[i][k] = refO[i][k]

\* The same two buffers fed twice, each time after a reset, the second
\* outcome of each stream differing from the first (the state is felt).
C1_Witness ==
    /\ Len(curO[1]) = 2
    /\ refF[1] = curF[1]
    /\ curO[1][1].result = "ok"
    /\ curO[1][2].result = "ok"
    /\ curO[1][1] # curO[1][2]
    /\ curF[1][1] = curF[1][2]

\* C2: a successful call passes to the session, as h and c, the arrays the
\* session returned to the previous successful call since the last reset
\* (all-zero arrays if there was none), and leaves in _h and _c the arrays
\* the session returned to it.
C2_Recurrence ==
    [][\A i \in Insts :
          (IsSileroCallStep(i) /\ event'.result = "ok")
              => /\ IF engineOut[i] = <<>>
                    THEN /\ IsZeroState(event'.passed[1].h)
                         /\ IsZeroState(event'.passed[1].c)
                    ELSE /\ event'.passed[1].h = engineOut[i][2]
                         /\ event'.passed[1].c = engineOut[i][3]
                 /\ h'[i] = engineOut'[i][2]
                 /\ c'[i] = engineOut'[i][3]]_vars

\* A successful call that was handed a state other than zero, after a failed
\* call and a successful one.
C2_Witness ==
    /\ SileroCallEvent(1)
    /\ event.result = "ok"
    /\ Len(curO[1]) >= 2
    /\ event.passed[1].h.num # 0
    /\ event.passed[1].c.num # 0
    /\ h[1] # event.passed[1].h

\* C3: right after the construction and right after a reset, _h and _c are
\* all-zero arrays of shape (2, 1, 64).
C3_ZeroAfterReset ==
    /\ event.det = "none" => \A i \in Insts : IsZeroState(h[i]) /\ IsZeroState(c[i])
    /\ \A i \in Insts :
          (event.det = "silero" /\ event.inst = i /\ event.op = "reset")
              => IsZeroState(h[i]) /\ IsZeroState(c[i])

\* A reset that found _h and _c other than zero.
C3_Witness ==
    /\ event.det = "silero"
    /\ event.op = "reset"
    /\ event.before[1].h.num # 0
    /\ event.before[1].c.num # 0

\* C4: the WebRTC detector passes the buffer as it is and the rate 16000 to
\* the classifier; when the classifier accepts the frame the call returns
\* 1.0 if it reports speech and 0.0 if not, and otherwise returns nothing.
C4_WebrtcDelegates ==
    (event.det = "webrtc" /\ event.op = "call")
        => /\ event.passed = <<[buf |-> event.frame, rate |-> 16000]>>
           /\ event.result = "ok"
                 => /\ event.verdict # <<>>
                    /\ event.verdict[1] => event.ret = <<[num |-> 1, den |-> 1]>>
                    /\ ~event.verdict[1] => event.ret = <<[num |-> 0, den |-> 1]>>
           /\ event.result # "ok" => event.ret = <<>>

\* The classifier reported speech on a frame of 10 ms.
C4_Witness ==
    /\ event.det = "webrtc"
    /\ event.result = "ok"
    /\ event.verdict = <<TRUE>>
    /\ Len(event.frame) = 320

\* C5: a call of either detector that returns, returns a value in [0, 1].
C5_ProbabilityRange ==
    (event.op = "call" /\ event.result = "ok")
        => /\ Len(event.ret) = 1
           /\ event.ret[1].den > 0
           /\ 0 <= event.ret[1].num
           /\ event.ret[1].num <= event.ret[1].den

\* The Silero detector, in a state other than zero, returned a probability
\* strictly between 0 and 1.
C5_Witness ==
    /\ SileroCallEvent(1)
    /\ event.result = "ok"
    /\ event.before[1].h.num < 0
    /\ 0 < event.ret[1].num
    /\ event.ret[1].num < event.ret[1].den

\* C6 as stated: a buffer of odd length makes the call of either detector
\* fail where the buffer is decoded; nothing is returned and nothing is
\* passed to the inference session.
C6_OddLengthFailsBoth ==
    (event.op = "call" /\ Len(event.frame) % 2 = 1)
        => /\ event.result = "decode_error"
           /\ event.ret = <<>>
           /\ event.det = "silero" => event.passed = <<>>

\* C6, amended: a buffer of odd length makes the call of the Silero detector
\* fail where the buffer is decoded: nothing is returned, nothing is passed
\* to the inference session, _h and _c stay as they were.  The WebRTC
\* detector decodes nothing: it passes the buffer as it is to the classifier.
C6_OddLengthFailsSilero ==
    (event.op = "call" /\ Len(event.frame) % 2 = 1)
        => /\ \A i \in Insts :
                 SileroCallEvent(i)
                     => /\ event.result = "decode_error"
                        /\ event.ret = <<>>
                        /\ event.passed = <<>>
                        /\ h[i] = event.before[1].h
                        /\ c[i] = event.before[1].c
           /\ event.det = "webrtc"
                 => /\ Len(event.passed) = 1
                    /\ event.passed[1].buf = event.frame

\* A buffer of three bytes was fed to a Silero detector whose state was not
\* zero.
C6_Witness ==
    /\ SileroCallEvent(1)
    /\ Len(event.frame) = 3
    /\ event.result = "decode_error"
    /\ event.before[1].h.num # 0

\* The arrays something other than detector i refers to: the values its
\* callers hold (views of the arrays returned), the outputs of a call that
\* has not yet assigned them, the other detectors' states.
OutsideRefs(i) ==
    UNION { {held[j][k].base : k \in DOMAIN held[j]} : j \in Insts }
    \cup UNION { UNION { {pending[j][k].outs[n].id : n \in DOMAIN pending[j][k].outs}
                         : k \in DOMAIN pending[j] } : j \in Insts }
    \cup UNION { {h[j].id, c[j].id} : j \in Insts \ {i} }

\* C7: _h and _c always have shape (2, 1, 64) and type float32, and nothing
\* but the detector refers to them.
C7_StateShapeAndOwnership ==
    \A i \in Insts :
        /\ h[i].shape = <<2, 1, 64>>
        /\ c[i].shape = <<2, 1, 64>>
        /\ h[i].dtype = "float32"
        /\ c[i].dtype = "float32"
        /\ h[i].id \notin OutsideRefs(i)
        /\ c[i].id \notin OutsideRefs(i)

\* Both detectors hold the outputs of a session and their callers hold
\* returned values.
C7_Witness ==
    /\ held[1] # <<>>
    /\ held[2] # <<>>
    /\ engineOut[1] # <<>>
    /\ h[1] = engineOut[1][2]
    /\ h[2].num # 0

\* C8: however the calls and resets of two detectors interleave, each
\* detector's outcomes since its last reset and its _h and _c are those of
\* the detector replayed alone on its own calls.
C8_InstancesIndependent ==
    \A i \in Insts :
        /\ Content(h[i]) = Content(solo[i].h)
        /\ Content(c[i]) = Content(solo[i].c)
        /\ curO[i] = solo[i].out

\* Both calls are between session.run and the assignment, the two detectors
\* being in different states, neither zero.
C8_Witness ==
    /\ pc[1] = "running"
    /\ pc[2] = "running"
    /\ h[1].num # 0
    /\ h[2].num # 0
    /\ Content(h[1]) # Content(h[2])
    /\ pending[1][1].result = "ok"
    /\ pending[2][1].result = "ok"

\* C9: every element of the input passed to the session is the decoded
\* 16-bit sample over 32767: below -1 for the sample -32768, within [-1, 1]
\* for every other sample.
C9_Normalization ==
    \A i \in Insts :
        (SileroCallEvent(i) /\ event.passed # <<>>)
            => LET x == event.passed[1].input.data
               IN  /\ Len(x) = Len(event.frame) \div 2
                   /\ \A k \in 1..Len(x) :
                         LET s == Int16At(event.frame, k)
                         IN  /\ x[k] = [num |-> s, den |-> 32767]
                             /\ s = 0 - 32768 => x[k].num < 0 - x[k].den
                             /\ s # 0 - 32768 => /\ 0 - x[k].den <= x[k].num
                                                 /\ x[k].num <= x[k].den

\* The buffer of the single sample -32768 reached the session.
C9_Witness ==
    /\ SileroCallEvent(1)
    /\ event.frame = <<0, 128>>
    /\ event.result = "ok"
    /\ event.passed[1].input.data[1].num = 0 - 32768

\* C10: a call that fails leaves _h and _c as they were, a call that succeeds
\* was handed the _h and _c it found, and no step replaces one of _h and _c
\* without the other.
C10_StateUnchangedOnError ==
    [][\A i \in Insts :
          /\ (IsSileroCallStep(i) /\ event'.result # "ok")
                => h'[i] = h[i] /\ c'[i] = c[i]
          /\ (IsSileroCallStep(i) /\ event'.result = "ok")
                => event'.passed[1].h = h[i] /\ event'.passed[1].c = c[i]
          /\ (h'[i] # h[i]) <=> (c'[i] # c[i])]_vars

\* The session raised on a detector whose state was not zero.
C10_Witness ==
    /\ SileroCallEvent(1)
    /\ event.result = "engine_error"
    /\ h[1].num # 0
    /\ c[1].num # 0
    /\ h[1] = event.before[1].h

====
